---- MODULE Spec2Model ----
(***************************************************************************)
(* FormulaEvaluator (src/src/Engine/FormulaEvaluator.ts): the two-stack    *)
(* infix evaluator of spreadsheet formulas.  One action per call of        *)
(* evaluate; the scan, the reductions and the drain are operators          *)
(* translated from the methods of the class.                               *)
(*                                                                         *)
(* Numbers are exact rationals n/d in lowest terms (an idealisation of the *)
(* IEEE doubles of the source: no rounding), together with the three       *)
(* non-rational values the code can produce or observe: NaN, Infinity and  *)
(* undefined (Array.prototype.pop on an empty array).                      *)
(***************************************************************************)
EXTENDS Integers, Sequences, FiniteSets, TLC

(***************************************************************************)
(* Bounds of the model.                                                    *)
(***************************************************************************)
\* the first calls of one behaviour of Spec draw at most MaxTokens tokens in
\* all (an empty formula counting as one, a repeated call as none)
MaxTokens == 5

\* longest well-formed formula handed to evaluate under SpecWF
MaxWFLen == 7

(***************************************************************************)
(* Numbers.                                                                *)
(***************************************************************************)
Abs(x) == IF x < 0 THEN -x ELSE x

RECURSIVE Gcd(_, _)
Gcd(a, b) == IF b = 0 THEN a ELSE Gcd(b, a % b)

\* the rational n/d (d # 0) in lowest terms with a positive denominator
Rat(n, d) ==
    LET g == Gcd(Abs(n), Abs(d))
        s == IF d < 0 THEN -1 ELSE 1
    IN  [k |-> "number", n |-> (s * n) \div g, d |-> (s * d) \div g]

Num(n) == [k |-> "number", n |-> n, d |-> 1]
NaN == [k |-> "NaN", n |-> 0, d |-> 1]
Infinity == [k |-> "Infinity", n |-> 0, d |-> 1]
undefined == [k |-> "undefined", n |-> 0, d |-> 1]

\* a finite number: the operands the arithmetic below is exact on
IsFinite(v) == v.k = "number"

\* JavaScript +, -, *, / on two operands that are finite numbers, NaN or
\* undefined (undefined converts to NaN, and NaN is absorbing)
Plus(a, b) ==
    IF IsFinite(a) /\ IsFinite(b) THEN Rat(a.n * b.d + b.n * a.d, a.d * b.d) ELSE NaN
Minus(a, b) ==
    IF IsFinite(a) /\ IsFinite(b) THEN Rat(a.n * b.d - b.n * a.d, a.d * b.d) ELSE NaN
Times(a, b) ==
    IF IsFinite(a) /\ IsFinite(b) THEN Rat(a.n * b.n, a.d * b.d) ELSE NaN
\* only used with b # 0 (applyOperator throws before dividing by zero)
Divide(a, b) ==
    IF IsFinite(a) /\ IsFinite(b) /\ b.n # 0 THEN Rat(a.n * b.d, a.d * b.n) ELSE NaN

\* x === 0
IsZero(v) == IsFinite(v) /\ v.n = 0

\* x || 0 : 0, NaN and undefined are falsy
OrZero(v) == IF v.k = "Infinity" \/ (IsFinite(v) /\ v.n # 0) THEN v ELSE Num(0)

(***************************************************************************)
(* Tokens.                                                                 *)
(***************************************************************************)
\* the numeric literals of the model and what Number(token) parses them to
NumberTokens == {"0", "1", "2", "3"}
Number(token) ==
    CASE token = "0" -> Num(0)
      [] token = "1" -> Num(1)
      [] token = "2" -> Num(2)
      [] token = "3" -> Num(3)
      [] OTHER -> NaN

\* the cell labels of the model
CellLabels == {"A1"}

Operators == {"+", "-", "*", "/"}

\* the tokens the formulas of Spec are made of: a zero and a non-zero literal,
\* a cell reference, an operator of each precedence, the parentheses
Tokens == {"0", "2", "A1", "+", "/", "(", ")"}

\* the message table of GlobalDefinitions: six distinct opaque messages
ErrorMessages ==
    [emptyFormula       |-> "emptyFormula",
     missingParentheses |-> "missingParentheses",
     invalidFormula     |-> "invalidFormula",
     divideByZero       |-> "divideByZero",
     invalidOperator    |-> "invalidOperator",
     invalidCell        |-> "invalidCell"]

Catalog == {ErrorMessages[x] : x \in DOMAIN ErrorMessages}

isNaN(v) == v.k = "NaN" \/ v.k = "undefined"

isNumber(token) == ~isNaN(Number(token))

\* Cell.isValidCellLabel
isCellReference(token) == token \in CellLabels

isOperator(token) == token \in {"+", "-", "*", "/"}

getOperatorPrecedenceFlat(operator) ==
    CASE operator \in {"+", "-", "*", "/"} -> 1
      [] OTHER -> 0

getOperatorPrecedence(operator) ==
    CASE operator \in {"+", "-"} -> 1
      [] operator \in {"*", "/"} -> 2
      [] OTHER -> 0

(***************************************************************************)
(* The sheet: what getCellByLabel(label) answers getFormula, getError and  *)
(* getValue with.                                                          *)
(***************************************************************************)
StoredErrors == {"", ErrorMessages.emptyFormula, ErrorMessages.divideByZero, "#CIRC"}

CellStates ==
    [formula : {<< >>, <<"1">>}, error : StoredErrors, value : {Num(3)}]

Sheets == [CellLabels -> CellStates]

getCellValueEmptyFirst(token, memory) ==
    LET cell == memory[token]
        formula == cell.formula
        error == cell.error
    IN  IF Len(formula) = 0 THEN <<Num(0), ErrorMessages.invalidCell>>
        ELSE IF error # "" /\ error # ErrorMessages.emptyFormula THEN <<Num(0), error>>
        ELSE <<cell.value, "">>

getCellValue(token, memory) ==
    LET cell == memory[token]
        formula == cell.formula
        error == cell.error
    IN  IF error # "" /\ error # ErrorMessages.emptyFormula THEN <<Num(0), error>>
        ELSE IF Len(formula) = 0 THEN <<Num(0), ErrorMessages.invalidCell>>
        ELSE <<cell.value, "">>

(***************************************************************************)
(* evaluateExpression.  A run is a record m: the evaluator's fields        *)
(* (sheetMemory, errorMessage, result), the two stacks, how the run ended  *)
(* (exit: "run" while scanning, "return" with the returned value ret,      *)
(* "throw" with the message of the Error thrown), and a log: at, the index *)
(* of the token being processed;                                           *)
(* applied, one entry per applyOperator call with the operator and the     *)
(* length of values when it was called; resolved, one entry per            *)
(* getCellValue call with the index of the token and the pair returned.    *)
(***************************************************************************)
Top(s) == s[Len(s)]
Pop(s) == SubSeq(s, 1, Len(s) - 1)

\* _result = Infinity; _errorMessage = divideByZero; throw
divisionByZeroUnflagged(m) ==
    [m EXCEPT !.errorMessage = ErrorMessages.divideByZero,
              !.exit = "throw", !.thrown = "Division by zero"]

divisionByZero(m) ==
    [m EXCEPT !.result = Infinity,
              !.errorMessage = ErrorMessages.divideByZero,
              !.exit = "throw", !.thrown = "Division by zero"]

\* the default branch of the switch
invalidOperatorUncatalogued(m) ==
    [m EXCEPT !.errorMessage = "Invalid operator",
              !.exit = "throw", !.thrown = "Invalid operator"]

invalidOperator(m) ==
    [m EXCEPT !.errorMessage = ErrorMessages.invalidOperator,
              !.exit = "throw", !.thrown = "Invalid operator"]

applyOperator(operator, m) ==
    LET n == Len(m.values)
        operand2 == IF n >= 1 THEN m.values[n] ELSE undefined
        operand1 == IF n >= 2 THEN m.values[n - 1] ELSE undefined
        rest == IF n >= 2 THEN SubSeq(m.values, 1, n - 2) ELSE << >>
        popped == [m EXCEPT !.values = rest,
                            !.applied = Append(@, [operator |-> operator, depth |-> n])]
    IN  CASE operator = "+" ->
               [popped EXCEPT !.values = Append(rest, Plus(operand1, operand2))]
          [] operator = "-" ->
               [popped EXCEPT !.values = Append(rest, Minus(operand1, operand2))]
          [] operator = "*" ->
               [popped EXCEPT !.values = Append(rest, Times(operand1, operand2))]
          [] operator = "/" ->
               IF IsZero(operand2)
               THEN divisionByZero(popped)
               ELSE [popped EXCEPT !.values = Append(rest, Divide(operand1, operand2))]
          [] OTHER -> invalidOperator(popped)

\* the while loop of the ")" branch
RECURSIVE reduceToParen(_)
reduceToParen(m) ==
    IF m.exit = "run" /\ Len(m.operators) > 0 /\ Top(m.operators) # "("
    THEN reduceToParen(applyOperator(Top(m.operators),
                                     [m EXCEPT !.operators = Pop(@)]))
    ELSE m

\* the while loop of the operator branch
RECURSIVE reduceByPrecedence(_, _)
reduceByPrecedence(token, m) ==
    IF /\ m.exit = "run"
       /\ Len(m.operators) > 0
       /\ getOperatorPrecedence(token) <= getOperatorPrecedence(Top(m.operators))
    THEN reduceByPrecedence(token, applyOperator(Top(m.operators),
                                                 [m EXCEPT !.operators = Pop(@)]))
    ELSE m

\* the while loop after the scan ("Remaining operations")
RECURSIVE drain(_)
drain(m) ==
    IF m.exit = "run" /\ Len(m.operators) > 0
    THEN drain(applyOperator(Top(m.operators), [m EXCEPT !.operators = Pop(@)]))
    ELSE m

\* one iteration of the for loop, on tokens[i] (1-based)
scanToken(tokens, i, m0) ==
    LET m == [m0 EXCEPT !.at = i]
        token == tokens[i]
    IN  IF isNumber(token) THEN
            LET pushed == [m EXCEPT !.values = Append(@, Number(token))]
            IN  IF i < Len(tokens) /\ tokens[i + 1] = "("
                THEN [pushed EXCEPT !.errorMessage = ErrorMessages.invalidFormula,
                                    !.exit = "return", !.ret = Number(token)]
                ELSE pushed
        ELSE IF isCellReference(token) THEN
            LET got == getCellValue(token, m.sheetMemory)
                seen == [m EXCEPT !.resolved =
                                    Append(@, [at |-> i, value |-> got[1], error |-> got[2]])]
            IN  IF got[2] # ""
                THEN [seen EXCEPT !.errorMessage = got[2],
                                  !.exit = "throw", !.thrown = "Invalid cell reference"]
                ELSE [seen EXCEPT !.values = Append(@, got[1])]
        ELSE IF token = "(" THEN
            [m EXCEPT !.operators = Append(@, token)]
        ELSE IF token = ")" THEN
            LET r == reduceToParen(m)
            IN  IF r.exit = "run" /\ Len(r.operators) > 0
                THEN [r EXCEPT !.operators = Pop(@)]
                ELSE r
        ELSE IF isOperator(token) THEN
            IF i < Len(tokens) /\ isOperator(tokens[i + 1])
            THEN [m EXCEPT !.errorMessage = ErrorMessages.invalidFormula,
                           !.exit = "return",
                           !.ret = OrZero(IF Len(m.values) > 0 THEN Top(m.values)
                                          ELSE undefined)]
            ELSE LET r == reduceByPrecedence(token, m)
                 IN  IF r.exit = "run"
                     THEN [r EXCEPT !.operators = Append(@, token)]
                     ELSE r
        ELSE m

RECURSIVE scan(_, _, _)
scan(tokens, i, m) ==
    IF m.exit # "run" \/ i > Len(tokens) THEN m
    ELSE scan(tokens, i + 1, scanToken(tokens, i, m))

\* the code after the for loop
afterScan(tokens, m) ==
    LET lastToken == tokens[Len(tokens)]
    IN  IF isOperator(lastToken)
        THEN [m EXCEPT !.errorMessage = ErrorMessages.invalidFormula,
                       !.exit = "return",
                       !.ret = OrZero(IF Len(m.values) > 0 THEN Top(m.values)
                                      ELSE undefined)]
        ELSE IF /\ Len(m.operators) > 0
                /\ (~isOperator(Top(m.operators)) \/ Len(m.values) < 2)
        THEN [m EXCEPT !.errorMessage = ErrorMessages.invalidFormula,
                       !.exit = "throw", !.thrown = "Invalid formula"]
        ELSE LET d == drain(m)
             IN  IF d.exit # "run" THEN d
                 ELSE [d EXCEPT !.exit = "return",
                                !.ret = OrZero(IF Len(d.values) > 0 THEN Top(d.values)
                                               ELSE undefined)]

evaluateExpression(tokens, this) ==
    LET m0 == [sheetMemory |-> this.sheetMemory,
               errorMessage |-> this.errorMessage,
               result |-> this.result,
               values |-> << >>, operators |-> << >>,
               exit |-> "run", ret |-> undefined, thrown |-> "",
               at |-> 0, applied |-> << >>, resolved |-> << >>]
        m == scan(tokens, 1, m0)
    IN  IF m.exit # "run" THEN m ELSE afterScan(tokens, m)

(***************************************************************************)
(* evaluate(formula) on the evaluator this = [sheetMemory, errorMessage,   *)
(* result]: the evaluator's fields after the call, and how the call went   *)
(* (exit: "fast" for the two early returns, "return" when                  *)
(* evaluateExpression returned, "catch" when it threw).                    *)
(***************************************************************************)
Outcome(this, exit, m) ==
    [errorMessage |-> this.errorMessage, result |-> this.result, exit |-> exit,
     thrown |-> m.thrown, at |-> m.at, applied |-> m.applied, resolved |-> m.resolved]

NoRun == [thrown |-> "", at |-> 0, applied |-> << >>, resolved |-> << >>]

\* const result = this.evaluateExpression(formula); this._result = result
returnedAccumulating(m) ==
    [errorMessage |-> m.errorMessage, result |-> Plus(m.result, m.ret)]

returned(m) ==
    [errorMessage |-> m.errorMessage, result |-> m.ret]

\* the catch block
caughtOverwriting(m) ==
    [errorMessage |-> ErrorMessages.invalidFormula, result |-> m.result]

caughtResetting(m) ==
    [errorMessage |-> IF m.errorMessage = "" THEN ErrorMessages.invalidFormula
                      ELSE m.errorMessage,
     result |-> Num(0)]

caught(m) ==
    [errorMessage |-> IF m.errorMessage = "" THEN ErrorMessages.invalidFormula
                      ELSE m.errorMessage,
     result |-> m.result]

evaluate(formula, this0) ==
    LET this == [this0 EXCEPT !.errorMessage = ""]
    IN  IF Len(formula) = 0
        THEN Outcome([this EXCEPT !.errorMessage = ErrorMessages.emptyFormula],
                     "fast", NoRun)
        ELSE IF Len(formula) = 2 /\ formula[1] = "(" /\ formula[2] = ")"
        THEN Outcome([this EXCEPT !.errorMessage = ErrorMessages.missingParentheses],
                     "fast", NoRun)
        ELSE
            LET lastCharacter == formula[Len(formula)]
                flagged == IF isOperator(lastCharacter) /\ lastCharacter # ")"
                           THEN [this EXCEPT !.errorMessage = ErrorMessages.invalidFormula]
                           ELSE this
                m == evaluateExpression(formula, flagged)
            IN  IF m.exit = "return"
                THEN Outcome(returned(m), "return", m)
                ELSE Outcome(caught(m), "catch", m)

(***************************************************************************)
(* The state: the evaluator's two fields, the sheet it reads, the record   *)
(* of the call last made on it (what the caller passed and what the call   *)
(* logged), kept until the caller has read the outcome, and the number of  *)
(* tokens the calls have drawn so far.                                     *)
(***************************************************************************)
VARIABLES errorMessage, result, sheetMemory, lastCall, drawn

vars == <<errorMessage, result, sheetMemory, lastCall, drawn>>

NoCall ==
    [formula |-> << >>, before |-> Num(0), again |-> FALSE, exit |-> "none",
     thrown |-> "", at |-> 0, applied |-> << >>, resolved |-> << >>]

\* every sequence of k tokens
Formulas(k) == [1..k -> Tokens]

Init ==
    /\ errorMessage = ""
    /\ result = Num(0)
    /\ sheetMemory \in Sheets
    /\ lastCall = NoCall
    /\ drawn = 0

\* one call evaluate(formula); again tells a repeated call from a first one
Call(formula, again) ==
    \E o \in {evaluate(formula, [sheetMemory |-> sheetMemory,
                                errorMessage |-> errorMessage,
                                result |-> result])} :
        /\ errorMessage' = o.errorMessage
        /\ result' = o.result
        /\ lastCall' = [formula |-> formula, before |-> result,
                        again |-> again, exit |-> o.exit, thrown |-> o.thrown,
                        at |-> o.at, applied |-> o.applied, resolved |-> o.resolved]
        /\ UNCHANGED sheetMemory

\* a call on an evaluator whose last call is not on record
Evaluate ==
    /\ lastCall = NoCall
    /\ drawn < MaxTokens
    /\ \E k \in 0..(MaxTokens - drawn) : \E formula \in Formulas(k) :
          /\ Call(formula, FALSE)
          /\ drawn' = drawn + (IF k = 0 THEN 1 ELSE k)

\* the caller evaluates the same formula a second time, the sheet unchanged
EvaluateAgain ==
    /\ lastCall # NoCall
    /\ ~lastCall.again
    /\ Call(lastCall.formula, TRUE)
    /\ UNCHANGED drawn

\* the caller reads the outcome through the accessors error and result, which
\* change nothing, and moves on: the call is no longer on record
ReadOutcome ==
    /\ lastCall # NoCall
    /\ lastCall' = NoCall
    /\ UNCHANGED <<errorMessage, result, sheetMemory, drawn>>

\* the sheet is edited between two calls (the evaluator never writes to it)
EditSheet ==
    /\ lastCall = NoCall
    /\ sheetMemory' \in Sheets
    /\ UNCHANGED <<errorMessage, result, lastCall, drawn>>

Next == Evaluate \/ EvaluateAgain \/ ReadOutcome \/ EditSheet

Spec == Init /\ [][Next]_vars

(***************************************************************************)
(* The reference reading of a formula: the grammar                         *)
(*   Expr ::= Term (("+" | "-") Term)*                                     *)
(*   Term ::= Factor (("*" | "/") Factor)*                                 *)
(*   Factor ::= number | cell | "(" Expr ")"                               *)
(* parsed by recursive descent and evaluated over the integers.  A parse   *)
(* is [ok, exact, v, next]: ok, the tokens up to next - 1 are a phrase;    *)
(* exact, no division in it had a zero or a non-dividing divisor; v, its   *)
(* value when exact.                                                       *)
(***************************************************************************)
NoParse == [ok |-> FALSE, exact |-> FALSE, v |-> 0, next |-> 0]

Sign(x) == IF x < 0 THEN -1 ELSE 1

\* a op b over the integers; exact only if a division divides
Combine(op, a, b) ==
    CASE op = "+" -> [exact |-> TRUE, v |-> a + b]
      [] op = "-" -> [exact |-> TRUE, v |-> a - b]
      [] op = "*" -> [exact |-> TRUE, v |-> a * b]
      [] op = "/" ->
           IF b # 0 /\ Abs(a) % Abs(b) = 0
           THEN [exact |-> TRUE, v |-> Sign(a) * Sign(b) * (Abs(a) \div Abs(b))]
           ELSE [exact |-> FALSE, v |-> 0]

RECURSIVE ParseExpr(_, _, _), ParseTerm(_, _, _), ParseFactor(_, _, _)
RECURSIVE ExprRest(_, _, _), TermRest(_, _, _)

ParseFactor(f, i, memory) ==
    IF i > Len(f) THEN NoParse
    ELSE IF f[i] \in NumberTokens
    THEN [ok |-> TRUE, exact |-> TRUE, v |-> Number(f[i]).n, next |-> i + 1]
    ELSE IF f[i] \in CellLabels
    THEN [ok |-> TRUE, exact |-> TRUE, v |-> memory[f[i]].value.n, next |-> i + 1]
    ELSE IF f[i] = "("
    THEN LET e == ParseExpr(f, i + 1, memory)
         IN  IF e.ok /\ e.next <= Len(f) /\ f[e.next] = ")"
             THEN [e EXCEPT !.next = @ + 1]
             ELSE NoParse
    ELSE NoParse

\* left is the parse of the factors so far; fold the next "* Factor" into it
TermRest(f, left, memory) ==
    IF left.ok /\ left.next <= Len(f) /\ f[left.next] \in {"*", "/"}
    THEN LET right == ParseFactor(f, left.next + 1, memory)
             c == Combine(f[left.next], left.v, right.v)
         IN  IF ~right.ok THEN NoParse
             ELSE TermRest(f, [ok |-> TRUE,
                               exact |-> left.exact /\ right.exact /\ c.exact,
                               v |-> c.v, next |-> right.next], memory)
    ELSE left

ParseTerm(f, i, memory) == TermRest(f, ParseFactor(f, i, memory), memory)

\* left is the parse of the terms so far; fold the next "+ Term" into it
ExprRest(f, left, memory) ==
    IF left.ok /\ left.next <= Len(f) /\ f[left.next] \in {"+", "-"}
    THEN LET right == ParseTerm(f, left.next + 1, memory)
             c == Combine(f[left.next], left.v, right.v)
         IN  IF ~right.ok THEN NoParse
             ELSE ExprRest(f, [ok |-> TRUE,
                               exact |-> left.exact /\ right.exact /\ c.exact,
                               v |-> c.v, next |-> right.next], memory)
    ELSE left

ParseExpr(f, i, memory) == ExprRest(f, ParseTerm(f, i, memory), memory)

Reference(f, memory) == ParseExpr(f, 1, memory)

\* operands and binary operators alternate, parentheses balanced and non-empty
WellFormed(f) ==
    LET r == Reference(f, [c \in CellLabels |-> [value |-> Num(1)]])
    IN  r.ok /\ r.next = Len(f) + 1

(***************************************************************************)
(* SpecWF: the calls are made on well-formed formulas of up to MaxWFLen    *)
(* tokens, built from the grammar over all four operators.                 *)
(***************************************************************************)
\* the operands of the formulas of SpecWF
Operands == {"0", "2", "3", "A1"}

\* the well-formed formulas of exactly k tokens (none when k is even)
RECURSIVE WellFormedOfLen(_)
WellFormedOfLen(k) ==
    IF k < 1 \/ k % 2 = 0 THEN {}
    ELSE IF k = 1 THEN {<<x>> : x \in Operands}
    ELSE {<<"(">> \o e \o <<")">> : e \in WellFormedOfLen(k - 2)}
         \cup UNION {{a \o <<op>> \o b : a \in WellFormedOfLen(j),
                                         b \in WellFormedOfLen(k - 1 - j),
                                         op \in Operators} : j \in 1..(k - 2)}

WellFormedFormulas == UNION {WellFormedOfLen(k) : k \in 1..MaxWFLen}

EvaluateWF ==
    /\ lastCall = NoCall
    /\ \E formula \in WellFormedFormulas : Call(formula, FALSE)
    /\ UNCHANGED drawn

NextWF == EvaluateWF \/ EvaluateAgain

SpecWF == Init /\ [][NextWF]_vars

(***************************************************************************)
(* What the claims speak of, read off the record of the last call.         *)
(***************************************************************************)
Called == lastCall.exit # "none"

Indices(f) == 1..Len(f)

Count(f, token) == Cardinality({i \in Indices(f) : f[i] = token})

NoCellReference(f) == \A i \in Indices(f) : ~isCellReference(f[i])

TrailingOperator(f) == Len(f) > 0 /\ isOperator(f[Len(f)])

\* the stored errors of the cells the formula refers to
ReferencedErrors(f) ==
    {sheetMemory[f[i]].error : i \in {j \in Indices(f) : isCellReference(f[j])}}

\* every cell the formula refers to has a non-empty formula and no stored error
CellsSound(f) ==
    \A i \in Indices(f) :
        isCellReference(f[i]) =>
            sheetMemory[f[i]].error = "" /\ sheetMemory[f[i]].formula # << >>

\* the call was aborted by a failing cell reference
StoppedAtCell == lastCall.exit = "catch" /\ lastCall.thrown = "Invalid cell reference"

\* the call was aborted by applyOperator dividing by zero
StoppedAtDivision == lastCall.exit = "catch" /\ lastCall.thrown = "Division by zero"

\* what the claims say a reference to cell c yields as an error ("" for none)
ClaimedCellError(c) ==
    IF c.error # "" /\ c.error # ErrorMessages.emptyFormula THEN c.error
    ELSE IF c.formula = << >> THEN ErrorMessages.invalidCell
    ELSE ""

\* f without the tokens at the indices in D, from index i on
RECURSIVE Without(_, _, _)
Without(f, D, i) ==
    IF i > Len(f) THEN << >>
    ELSE (IF i \in D THEN << >> ELSE <<f[i]>>) \o Without(f, D, i + 1)

\* more "(" than ")", and well formed once the surplus "(" are taken out
StrayOpenParen(f) ==
    LET opens == {i \in Indices(f) : f[i] = "("}
        surplus == Count(f, "(") - Count(f, ")")
    IN  /\ surplus > 0
        /\ \E D \in SUBSET opens :
              Cardinality(D) = surplus /\ WellFormed(Without(f, D, 1))

(***************************************************************************)
(* C1                                                                      *)
(***************************************************************************)
\* C1: a well-formed formula whose cells are sound and whose divisions are
\* exact ends with error "" and with the value of the reference reading
\* (* and / before + and -, left to right, parentheses first).
C1_ReferenceValue ==
    (/\ Called
     /\ WellFormed(lastCall.formula)
     /\ CellsSound(lastCall.formula)
     /\ Reference(lastCall.formula, sheetMemory).exact)
    => /\ errorMessage = ""
       /\ result = Num(Reference(lastCall.formula, sheetMemory).v)

\* (2 + A1) * 3 with A1 = 3 has been evaluated to 15
C1_Witness ==
    /\ Called
    /\ lastCall.formula = <<"(", "2", "+", "A1", ")", "*", "3">>
    /\ CellsSound(lastCall.formula)
    /\ errorMessage = ""
    /\ result = Num(15)

(***************************************************************************)
(* C2                                                                      *)
(***************************************************************************)
\* C2 as stated: whenever a call ends with error divideByZero, result is
\* +infinity.
C2_DivideByZeroIsInfinity ==
    (Called /\ errorMessage = ErrorMessages.divideByZero) => result = Infinity

\* C2 amended: when a call ends with error divideByZero, result is +infinity
\* if a division of this call set the message; if the message is the stored
\* error of a referenced cell, result is what it was before the call.
C2_InfinityUnlessPropagated ==
    (Called /\ errorMessage = ErrorMessages.divideByZero)
    => IF StoppedAtCell
       THEN /\ result = lastCall.before
            /\ ErrorMessages.divideByZero \in ReferencedErrors(lastCall.formula)
       ELSE StoppedAtDivision /\ result = Infinity

\* the division by zero of a well-formed formula has overwritten a result that
\* was neither 0 nor infinite
C2_Witness ==
    /\ Called
    /\ WellFormed(lastCall.formula)
    /\ StoppedAtDivision
    /\ errorMessage = ErrorMessages.divideByZero
    /\ result = Infinity
    /\ lastCall.before \notin {Infinity, Num(0)}

(***************************************************************************)
(* C3                                                                      *)
(***************************************************************************)
\* C3 as stated: a formula whose last token is an operator always ends with
\* error invalidFormula.
C3_TrailingOperatorIsInvalidFormula ==
    (Called /\ TrailingOperator(lastCall.formula))
    => errorMessage = ErrorMessages.invalidFormula

\* C3 amended: a formula whose last token is an operator ends with error
\* invalidFormula unless the scan was aborted first, by a failing cell
\* reference (the error is then that cell's stored error, or invalidCell) or
\* by a division by zero (the error is then divideByZero).
C3_TrailingOperatorUnlessAborted ==
    (Called /\ TrailingOperator(lastCall.formula))
    => /\ lastCall.thrown \in {"", "Invalid cell reference", "Division by zero"}
       /\ errorMessage =
            IF StoppedAtCell
            THEN ClaimedCellError(sheetMemory[lastCall.formula[lastCall.at]])
            ELSE IF StoppedAtDivision THEN ErrorMessages.divideByZero
            ELSE ErrorMessages.invalidFormula

\* a well-formed formula followed by an operator has ended with divideByZero
C3_Witness ==
    /\ Called
    /\ TrailingOperator(lastCall.formula)
    /\ WellFormed(Pop(lastCall.formula))
    /\ StoppedAtDivision
    /\ errorMessage = ErrorMessages.divideByZero

(***************************************************************************)
(* C4                                                                      *)
(***************************************************************************)
\* the call was aborted at the k-th resolved cell reference with error e
AbortedAt(k, e) ==
    /\ k = Len(lastCall.resolved)
    /\ lastCall.at = lastCall.resolved[k].at
    /\ StoppedAtCell
    /\ errorMessage = e

\* C4: every cell-reference token the scan reaches is resolved; a stored
\* error other than "" and emptyFormula aborts the call with exactly that
\* error, even if the cell's formula is empty; otherwise an empty formula
\* aborts it with invalidCell; otherwise the cell's value is the operand and
\* the token sets no error (a formula that is just that reference ends with
\* error "" and the value, 0 for a falsy one).
C4_CellReference ==
    Called =>
      /\ \A i \in 1..lastCall.at :
            isCellReference(lastCall.formula[i]) =>
                \E k \in 1..Len(lastCall.resolved) : lastCall.resolved[k].at = i
      /\ \A k \in 1..Len(lastCall.resolved) :
            LET r == lastCall.resolved[k]
                c == sheetMemory[lastCall.formula[r.at]]
            IN  /\ isCellReference(lastCall.formula[r.at])
                /\ r.error = ClaimedCellError(c)
                /\ IF ClaimedCellError(c) # ""
                   THEN AbortedAt(k, ClaimedCellError(c))
                   ELSE /\ r.value = c.value
                        /\ ~(StoppedAtCell /\ lastCall.at = r.at)
                        /\ Len(lastCall.formula) = 1 =>
                              (errorMessage = "" /\ result = OrZero(c.value))

\* a reference reached after other tokens, to a cell with a stored error and
\* an empty formula, has ended the call with the stored error
C4_Witness ==
    /\ Called
    /\ lastCall.at > 1
    /\ StoppedAtCell
    /\ sheetMemory[lastCall.formula[lastCall.at]].error = "#CIRC"
    /\ sheetMemory[lastCall.formula[lastCall.at]].formula = << >>
    /\ errorMessage = "#CIRC"

(***************************************************************************)
(* C5                                                                      *)
(***************************************************************************)
\* C5: a second call with the same formula, the sheet unchanged, leaves
\* result and error as the first call left them.
C5_Idempotent ==
    [][(/\ Called
        /\ lastCall'.again
        /\ lastCall'.formula = lastCall.formula
        /\ sheetMemory' = sheetMemory)
       => (errorMessage' = errorMessage /\ result' = result)]_vars

\* a failing formula that overwrites result has been evaluated a second time
C5_Witness ==
    /\ Called
    /\ lastCall.again
    /\ lastCall.exit = "return"
    /\ errorMessage = ErrorMessages.invalidFormula
    /\ result # Num(0)

(***************************************************************************)
(* C6                                                                      *)
(***************************************************************************)
\* C6: a formula of numbers, operators and parentheses that ends with error
\* "" is a well-formed infix expression.
C6_EmptyErrorOnlyIfWellFormed ==
    (Called /\ NoCellReference(lastCall.formula) /\ errorMessage = "")
    => WellFormed(lastCall.formula)

(***************************************************************************)
(* C7                                                                      *)
(***************************************************************************)
\* C7 as stated: a call that ends with a non-empty error other than
\* divideByZero leaves result as it was before the call.
C7_ResultUntouchedOnFailure ==
    (Called /\ errorMessage \notin {"", ErrorMessages.divideByZero})
    => result = lastCall.before

\* C7 amended: a call that ends in one of the two early returns, or in a
\* caught failure other than a division by zero of this call, has a
\* non-empty error and leaves result as it was before; a call in which
\* evaluateExpression returns ends with error "" or invalidFormula and
\* result is the value returned.
C7_ResultUntouchedUnlessReturned ==
    Called =>
      /\ (lastCall.exit \in {"fast", "catch"} /\ ~StoppedAtDivision)
            => (errorMessage # "" /\ result = lastCall.before)
      /\ lastCall.exit = "return"
            => errorMessage \in {"", ErrorMessages.invalidFormula}

\* an invalid operator was caught and a result other than 0 was left alone
C7_Witness ==
    /\ Called
    /\ lastCall.exit = "catch"
    /\ errorMessage = ErrorMessages.invalidOperator
    /\ lastCall.before # Num(0)
    /\ result = lastCall.before

(***************************************************************************)
(* C8                                                                      *)
(***************************************************************************)
\* C8: every call returns; every failure thrown inside it is caught and
\* leaves a non-empty error; the error is "", a message of the catalog, or
\* the stored error of a cell the formula refers to.
C8_FailuresAreData ==
    Called =>
      /\ lastCall.exit \in {"fast", "return", "catch"}
      /\ lastCall.thrown # "" <=> lastCall.exit = "catch"
      /\ lastCall.exit = "catch" => errorMessage # ""
      /\ errorMessage \in {""} \cup Catalog \cup ReferencedErrors(lastCall.formula)

\* applyOperator threw on an operator it does not know, and the call ended
\* with invalidOperator
C8_Witness ==
    /\ Called
    /\ lastCall.thrown = "Invalid operator"
    /\ errorMessage = ErrorMessages.invalidOperator
    /\ Len(lastCall.applied) > 0

(***************************************************************************)
(* C9                                                                      *)
(***************************************************************************)
\* C9: a formula of numbers, operators and parentheses with more "(" than
\* ")" and otherwise well formed, in which no division by zero happens, ends
\* with error invalidFormula, and no "(" is handed to applyOperator.
C9_StrayOpenParenIsInvalidFormula ==
    (/\ Called
     /\ NoCellReference(lastCall.formula)
     /\ StrayOpenParen(lastCall.formula)
     /\ ~StoppedAtDivision)
    => /\ errorMessage = ErrorMessages.invalidFormula
       /\ \A k \in 1..Len(lastCall.applied) : lastCall.applied[k].operator # "("

(***************************************************************************)
(* C10                                                                     *)
(***************************************************************************)
\* C10: whenever applyOperator is called, values holds at least two entries.
C10_TwoOperands ==
    Called => \A k \in 1..Len(lastCall.applied) : lastCall.applied[k].depth >= 2

====
